---- MODULE Spec2Model ----
(***************************************************************************)
(* Model of fbchat_muqit/models/_message.py: the tag interpreter, the      *)
(* mention formatter, the attachment classifier, the message serializer    *)
(* and the three message normalizers (_from_graphql, _from_reply,          *)
(* _from_pull).                                                            *)
(*                                                                         *)
(* Every operation is a function of its arguments.  A behaviour is one     *)
(* call: the initial state holds the operation's name (op) and its         *)
(* argument (arg) with the result pending; the operation's action sets     *)
(* what it returned or raised (ret) and the caller's payload object as it  *)
(* is after the call (data).                                               *)
(*                                                                         *)
(* Python values are modelled as follows.  A string that the code splits   *)
(* or searches (a tag, a template literal, a display text) is a sequence   *)
(* of tokens; a string the code only copies is a TLA+ string, with "None"  *)
(* for the absent value.  A call result is Return(v) or Raise(e).          *)
(***************************************************************************)
EXTENDS Integers, Sequences, FiniteSets, TLC

VARIABLES op, arg, ret, data

vars == <<op, arg, ret, data>>

Return(v) == [exc |-> "none", val |-> v]
Raise(e) == [exc |-> e]
Pending == [exc |-> "pending"]

Returned(r) == r.exc = "none"

(***************************************************************************)
(* Sequences of length at most n over S.                                   *)
(***************************************************************************)
SeqUpTo(S, n) == UNION {[1..k -> S] : k \in 0..n}

RECURSIVE Concat(_)
Concat(ss) == IF ss = <<>> THEN <<>> ELSE Head(ss) \o Concat(Tail(ss))

(***************************************************************************)
(* Tags.  A tag is a sequence of tokens; ":" is the token of the colon     *)
(* character.  A tag list is absent (None) or a list of tags.              *)
(***************************************************************************)
NoneTags == [isNone |-> TRUE]
TagList(s) == [isNone |-> FALSE, list |-> s]

\* `tags or ()`
TagsOrEmpty(tags) == IF tags.isNone THEN <<>> ELSE tags.list

\* tag.split(":", 1): the tag cut at its first colon, or the tag alone.
Split1(tag) ==
    IF \E i \in 1..Len(tag) : tag[i] = ":"
    THEN LET i == CHOOSE k \in 1..Len(tag) :
                      tag[k] = ":" /\ \A j \in 1..(k - 1) : tag[j] # ":"
         IN  <<SubSeq(tag, 1, i - 1), SubSeq(tag, i + 1, Len(tag))>>
    ELSE <<tag>>

\* The string_to_emojisize dictionary of EmojiSize._from_tags.
string_to_emojisize ==
    (<<"large">> :> "LARGE") @@ (<<"medium">> :> "MEDIUM") @@
    (<<"small">> :> "SMALL") @@ (<<"l">> :> "LARGE") @@
    (<<"m">> :> "MEDIUM") @@ (<<"s">> :> "SMALL")

\* Mutant of LookupEmojiSize: an unknown key defaults to none (dict.get).
LookupEmojiSize_default(key) ==
    IF key \in DOMAIN string_to_emojisize
    THEN Return(string_to_emojisize[key])
    ELSE Return("None")

\* string_to_emojisize[data[1]]: a missing key raises KeyError.
LookupEmojiSize(key) ==
    IF key \in DOMAIN string_to_emojisize
    THEN Return(string_to_emojisize[key])
    ELSE Raise("KeyError")

RECURSIVE ScanEmojiTags(_)
ScanEmojiTags(list) ==
    IF list = <<>> THEN Return("None")
    ELSE LET d == Split1(Head(list))
         IN  IF Len(d) > 1 /\ d[1] = <<"hot_emoji_size">>
             THEN LookupEmojiSize(d[2])
             ELSE ScanEmojiTags(Tail(list))

EmojiSize_from_tags(tags) == ScanEmojiTags(TagsOrEmpty(tags))

\* "forward" in tag or "copy" in tag
HasForwardOrCopy(tag) == \E i \in 1..Len(tag) : tag[i] \in {"forward", "copy"}

_get_forwarded_from_tags(tags) ==
    IF tags.isNone THEN FALSE
    ELSE \E i \in 1..Len(tags.list) : HasForwardOrCopy(tags.list[i])

possible_values == <<"inbox", "archived", "pending", "other">>

Upper(value) ==
    CASE value = "inbox" -> "INBOX"
      [] value = "archived" -> "ARCHIVED"
      [] value = "pending" -> "PENDING"
      [] value = "other" -> "OTHER"

RECURSIVE ScanFolder(_, _)
ScanFolder(values, list) ==
    IF values = <<>> THEN "None"
    ELSE IF \E i \in 1..Len(list) : list[i] = <<Head(values)>>
         THEN Upper(Head(values))
         ELSE ScanFolder(Tail(values), list)

\* `value in tags` raises TypeError when tags is None.
get_folder_tag(tags) ==
    IF tags.isNone THEN Raise("TypeError")
    ELSE Return(ScanFolder(possible_values, tags.list))

(***************************************************************************)
(* Message and Mention.                                                    *)
(***************************************************************************)
Mention(thread_id, offset, length) ==
    [thread_id |-> thread_id, offset |-> offset, length |-> length]

\* Message(text=, mentions=, emoji_size=, sticker=): the dataclass defaults.
\* replied_to is <<>> (None) or <<m>>; uid and author have no default.
NewMessage(text, mentions, emoji_size, sticker) ==
    [text |-> text, mentions |-> mentions, emoji_size |-> emoji_size,
     uid |-> "unset", author |-> "unset", timestamp |-> "None",
     is_read |-> "None", read_by |-> <<>>, reactions |-> <<>>,
     sticker |-> sticker, attachments |-> <<>>, quick_replies |-> <<>>,
     unsent |-> FALSE, reply_to_id |-> "None", replied_to |-> <<>>,
     location |-> "None", forwarded |-> FALSE]

(***************************************************************************)
(* Message.formatMentions.  The template is given as Formatter.parse       *)
(* yields it: a sequence of (literal_text, field_name, format_spec,        *)
(* conversion), field_name "None" for a segment without placeholder and    *)
(* "" for the implicitly numbered placeholder {}.                          *)
(***************************************************************************)
Digits == <<"0", "1", "2", "3", "4">>

IsDigit(field_name) == \E k \in 1..Len(Digits) : Digits[k] = field_name

ToInt(field_name) == (CHOOSE k \in 1..Len(Digits) : Digits[k] = field_name) - 1

\* str(i)
Str(i) == Digits[i + 1]

\* Mutant of Automatic: numbering is never taken as automatic.
Automatic_never(segs) == FALSE

\* automatic = "" in field_names
Automatic(segs) == \E k \in 1..Len(segs) : segs[k].field = ""

\* Formatter.get_field: a positional index reads args, a name reads kwargs.
get_field(field_name, args, kwargs) ==
    IF IsDigit(field_name)
    THEN IF ToInt(field_name) < Len(args)
         THEN Return(args[ToInt(field_name) + 1])
         ELSE Raise("IndexError")
    ELSE IF field_name \in DOMAIN kwargs
         THEN Return(kwargs[field_name])
         ELSE Raise("KeyError")

\* Formatter.format_field(name, spec) for a width spec: pad with spaces.
format_field(name, spec) ==
    LET w == ToInt(spec)
    IN  IF Len(name) >= w THEN name
        ELSE name \o [j \in 1..(w - Len(name)) |-> " "]

\* Formatter.convert_field(name, "r"): repr, the text in quotes.
convert_field(name, conversion) == <<"'">> \o name \o <<"'">>

\* Mutant of NextOffset: the offset is not moved past the substituted text.
NextOffset_stale(offset, name) == offset

\* offset += len(name)
NextOffset(offset, name) == offset + Len(name)

RECURSIVE FormatLoop(_, _, _, _, _)
FormatLoop(segs, automatic, args, kwargs, st) ==
    IF segs = <<>>
    THEN Return(NewMessage(st.result, st.mentions, "None", "None"))
    ELSE LET seg == Head(segs)
             offset1 == st.offset + Len(seg.lit)
             result1 == st.result \o seg.lit
         IN  IF seg.field = "None"
             THEN FormatLoop(Tail(segs), automatic, args, kwargs,
                             [st EXCEPT !.offset = offset1, !.result = result1])
             ELSE IF seg.field # "" /\ automatic /\ IsDigit(seg.field)
             THEN Raise("ValueError")
             ELSE LET field_name == IF seg.field = "" THEN Str(st.i) ELSE seg.field
                      i1 == IF seg.field = "" THEN st.i + 1 ELSE st.i
                      got == get_field(field_name, args, kwargs)
                  IN  IF ~Returned(got) THEN got
                      ELSE LET name0 == got.val.name
                               name1 == IF seg.spec # ""
                                        THEN format_field(name0, seg.spec)
                                        ELSE name0
                               name == IF seg.conv # "None"
                                       THEN convert_field(name1, seg.conv)
                                       ELSE name1
                           IN  FormatLoop(Tail(segs), automatic, args, kwargs,
                                   [result |-> result1 \o name,
                                    mentions |-> Append(st.mentions,
                                        Mention(got.val.thread_id, offset1, Len(name))),
                                    offset |-> NextOffset(offset1, name),
                                    i |-> i1])

formatMentions(text, args, kwargs) ==
    FormatLoop(text, Automatic(text), args, kwargs,
               [result |-> <<>>, mentions |-> <<>>, offset |-> 0, i |-> 0])

(***************************************************************************)
(* Attachment classifier.  An attachment object is a record with its kind; *)
(* [kind |-> "None"] is Python's None.                                     *)
(***************************************************************************)
NoAttachment == [kind |-> "None"]

\* The typed attachment classes of _attachment, _location and _file.
TypedAttachment(kind) == [kind |-> kind]

\* An extensible attachment payload: story_attachment absent, or present
\* with target absent, or with a target whose __typename is given
\* ("missing" when the target has no __typename key).
ExtNoStory == [story |-> FALSE, target |-> FALSE, typename |-> "None"]
ExtNoTarget == [story |-> TRUE, target |-> FALSE, typename |-> "None"]
ExtTarget(t) == [story |-> TRUE, target |-> TRUE, typename |-> t]

graphql_to_extensible_attachment(ext) ==
    IF ~ext.story THEN Return(NoAttachment)
    ELSE IF ~ext.target THEN Return(TypedAttachment("UnsentMessage"))
    ELSE IF ext.typename = "missing" THEN Raise("KeyError")
    ELSE IF ext.typename = "MessageLocation"
    THEN Return(TypedAttachment("LocationAttachment"))
    ELSE IF ext.typename = "MessageLiveLocation"
    THEN Return(TypedAttachment("LiveLocationAttachment"))
    ELSE IF ext.typename \in {"ExternalUrl", "Story"}
    THEN Return(TypedAttachment("ShareAttachment"))
    ELSE Return(NoAttachment)

\* _file.graphql_to_attachment: the typed attachment of a blob payload.
graphql_to_attachment(blob) == [kind |-> blob.typename, size |-> "None"]

\* _sticker.Sticker._from_graphql: None for an absent payload.
Sticker_from_graphql(sticker) == sticker

(***************************************************************************)
(* Quick replies.  A JSON text is modelled by the value it encodes: the    *)
(* "quick_replies" member is null, one object (dict) or a list.            *)
(***************************************************************************)
JsonNull == [kind |-> "null", items |-> <<>>]
JsonDict(q) == [kind |-> "dict", items |-> <<q>>]
JsonList(qs) == [kind |-> "list", items |-> qs]

\* _quick_reply.graphql_to_quick_reply(q, is_response=False): the variant
\* the content type selects, with the descriptor's fields and the flag.
graphql_to_quick_reply(q, is_response) ==
    [type |-> q.content_type, payload |-> q.payload,
     external_payload |-> q.external_payload, data |-> q.data,
     is_response |-> is_response,
     title |-> IF q.content_type = "text" THEN q.title ELSE "absent",
     image_url |-> IF q.content_type = "location" THEN "absent" ELSE q.image_url]

\* The quick replies read from platform_xmd(_encoded): <<>> when the field
\* is absent, else <<the decoded "quick_replies" member>>.  The message's
\* quick_replies stay [] unless the member is a list or a dict.
quick_replies_from_xmd(xmd) ==
    IF xmd = <<>> THEN <<>>
    ELSE LET quick_replies == xmd[1]
         IN  IF quick_replies.kind = "list"
             THEN [i \in 1..Len(quick_replies.items) |->
                      graphql_to_quick_reply(quick_replies.items[i], FALSE)]
             ELSE IF quick_replies.kind = "dict"
             THEN <<graphql_to_quick_reply(quick_replies.items[1], TRUE)>>
             ELSE <<>>

(***************************************************************************)
(* Message._to_send_data.  The field map is a record; a key the code does  *)
(* not set is "absent" (<<>> for tags[0] and platform_xmd).                *)
(***************************************************************************)
Truthy(str) == str \notin {"None", ""}

EmojiName(emoji_size) ==
    CASE emoji_size = "LARGE" -> "large"
      [] emoji_size = "MEDIUM" -> "medium"
      [] emoji_size = "SMALL" -> "small"

EmojiValue(emoji_size) ==
    CASE emoji_size = "LARGE" -> "369239383222810"
      [] emoji_size = "MEDIUM" -> "369239343222814"
      [] emoji_size = "SMALL" -> "369239263222822"

\* The dict q built for one quick reply.
QuickReplyDict(quick_reply) ==
    [content_type |-> quick_reply.type, payload |-> quick_reply.payload,
     external_payload |-> quick_reply.external_payload,
     data |-> quick_reply.data,
     ignore_for_webhook |-> IF quick_reply.is_response THEN "False" ELSE "absent",
     title |-> IF quick_reply.type = "text" THEN quick_reply.title ELSE "absent",
     image_url |-> IF quick_reply.type # "location"
                   THEN quick_reply.image_url ELSE "absent"]

\* Mutant of Collapses: every one-element list is sent as a single object.
Collapses_any_singleton(quick_replies) == Len(quick_replies) = 1

\* len(self.quick_replies) == 1 and self.quick_replies[0].is_response
Collapses(quick_replies) ==
    Len(quick_replies) = 1 /\ quick_replies[1].is_response

\* Mutant of EmojiAsTag: the tag encoding is chosen whatever the text.
EmojiAsTag_always(self) == TRUE

\* `if self.text:` under `if self.emoji_size:`
EmojiAsTag(self) == Truthy(self.text)

_to_send_data(self) ==
    LET qs == [i \in 1..Len(self.quick_replies) |->
                  QuickReplyDict(self.quick_replies[i])]
    IN  [action_type |->
            IF Truthy(self.text) \/ self.sticker # "None" \/ self.emoji_size # "None"
            THEN "ma-type:user-generated-message" ELSE "absent",
         body |-> IF Truthy(self.text) THEN self.text ELSE "absent",
         profile_xmd |->
            [i \in 1..Len(self.mentions) |->
                [id |-> self.mentions[i].thread_id,
                 offset |-> self.mentions[i].offset,
                 length |-> self.mentions[i].length, type |-> "p"]],
         tags0 |->
            IF self.emoji_size # "None" /\ EmojiAsTag(self)
            THEN <<<<"hot_emoji_size", ":", EmojiName(self.emoji_size)>>>>
            ELSE <<>>,
         sticker_id |->
            IF self.sticker # "None" THEN self.sticker
            ELSE IF self.emoji_size # "None" /\ ~EmojiAsTag(self)
            THEN EmojiValue(self.emoji_size)
            ELSE "absent",
         platform_xmd |->
            IF self.quick_replies # <<>>
            THEN <<IF Collapses(self.quick_replies)
                   THEN JsonDict(qs[1]) ELSE JsonList(qs)>>
            ELSE <<>>,
         replied_to_message_id |->
            IF Truthy(self.reply_to_id) THEN self.reply_to_id ELSE "absent"]

(***************************************************************************)
(* Message._from_graphql.  A payload field that is absent or null is       *)
(* "None" (a string) or <<>> (a structure, <<v>> when present).            *)
(* message_sender is "None", "empty" (the dict {}) or the sender's id.     *)
(* replied_to_message is <<>> or <<[message |-> <<>> or <<payload>>]>>.    *)
(***************************************************************************)
EmptyMessageDict == [text |-> "None", ranges |-> <<>>]

\* The reactions dict: user id -> reaction, a later entry overwriting.
ReactionsOf(list) ==
    [u \in {list[i].user : i \in 1..Len(list)} |->
        list[CHOOSE i \in 1..Len(list) :
                /\ list[i].user = u
                /\ \A j \in (i + 1)..Len(list) : list[j].user # u].reaction]

\* not data["unread"]
NotUnread(unread) == IF unread = "True" THEN "False" ELSE "True"

\* Mutant of SetRepliedTo: reply_to_id takes the message's own id.
SetRepliedTo_own_id(rtn, replied) ==
    IF replied # <<>>
    THEN [rtn EXCEPT !.replied_to = replied, !.reply_to_id = rtn.uid]
    ELSE rtn

\* rtn.replied_to = ...; if rtn.replied_to is not None: rtn.reply_to_id = ...
SetRepliedTo(rtn, replied) ==
    IF replied # <<>>
    THEN [rtn EXCEPT !.replied_to = replied, !.reply_to_id = replied[1].uid]
    ELSE rtn

\* isinstance(attachment, UnsentMessage) -> unsent; elif attachment -> append
ApplyExtensible(rtn, attachment) ==
    IF attachment.kind = "UnsentMessage" THEN [rtn EXCEPT !.unsent = TRUE]
    ELSE IF attachment.kind # "None"
    THEN [rtn EXCEPT !.attachments = Append(@, attachment)]
    ELSE rtn

\* The result is [ret, data]: what the call returns or raises, and the
\* payload object afterwards.  d is <<>> (None) or <<payload>>; a returned
\* value is <<>> (None) or <<Message>>.
RECURSIVE _from_graphql(_)
_from_graphql(d) ==
    IF d = <<>> THEN [ret |-> Return(<<>>), data |-> d]
    ELSE
    LET data1 == [d[1] EXCEPT
                    !.message_sender = IF @ = "None" THEN "empty" ELSE @,
                    !.message = IF @ = <<>> THEN <<EmptyMessageDict>> ELSE @]
        tags == data1.tags_list
        message == data1.message[1]
        emoji_size == EmojiSize_from_tags(tags)
        Fail(e) == [ret |-> Raise(e), data |-> <<data1>>]
    IN  IF ~Returned(emoji_size) THEN Fail(emoji_size.exc)
        ELSE IF data1.message_sender = "empty" THEN Fail("KeyError")
        ELSE IF data1.message_reactions = <<>> THEN Fail("KeyError")
        ELSE
        LET rtn0 == [NewMessage(message.text,
                                [i \in 1..Len(message.ranges) |->
                                    Mention(message.ranges[i].entity_id,
                                            message.ranges[i].offset,
                                            message.ranges[i].length)],
                                emoji_size.val,
                                Sticker_from_graphql(data1.sticker))
                     EXCEPT !.forwarded = _get_forwarded_from_tags(tags),
                            !.uid = data1.message_id,
                            !.author = data1.message_sender,
                            !.timestamp = data1.timestamp_precise,
                            !.unsent = FALSE,
                            !.is_read = IF data1.unread # "None"
                                        THEN NotUnread(data1.unread) ELSE @,
                            !.reactions = ReactionsOf(data1.message_reactions[1]),
                            !.attachments =
                                IF data1.blob_attachments # <<>>
                                THEN [i \in 1..Len(data1.blob_attachments[1]) |->
                                        graphql_to_attachment(data1.blob_attachments[1][i])]
                                ELSE @,
                            !.quick_replies =
                                quick_replies_from_xmd(data1.platform_xmd_encoded)]
            ext == IF data1.extensible_attachment # <<>>
                   THEN graphql_to_extensible_attachment(data1.extensible_attachment[1])
                   ELSE Return(NoAttachment)
        IN  IF ~Returned(ext) THEN Fail(ext.exc)
            ELSE
            LET rtn1 == ApplyExtensible(rtn0, ext.val)
            IN  IF data1.replied_to_message = <<>>
                THEN [ret |-> Return(<<rtn1>>), data |-> <<data1>>]
                ELSE
                LET inner == _from_graphql(data1.replied_to_message[1].message)
                    data2 == [data1 EXCEPT !.replied_to_message =
                                             <<[message |-> inner.data]>>]
                IN  IF ~Returned(inner.ret)
                    THEN [ret |-> inner.ret, data |-> <<data2>>]
                    ELSE [ret |-> Return(<<SetRepliedTo(rtn1, inner.ret.val)>>),
                          data |-> <<data2>>]

(***************************************************************************)
(* Message._from_reply and Message._from_pull.  The "prng" field is a JSON *)
(* text: <<>> when absent, else <<[valid, items]>>, valid FALSE for text   *)
(* that is no JSON; an item is a mention record (a dict) or something else.*)
(* A mercury payload has blob_attachment (<<>> or <<blob>>),               *)
(* sticker_attachment ("None" or a sticker) and extensible_attachment      *)
(* (<<>> or <<ext>>).                                                      *)
(***************************************************************************)
\* json.loads / _util.parse_json of prng followed by the Mention list
\* comprehension: m.get on an item that is no dict raises AttributeError.
MentionsOfPrng(prng) ==
    IF prng = <<>> THEN Return(<<>>)
    ELSE IF ~prng[1].valid THEN Raise("JSONDecodeError")
    ELSE IF \E k \in 1..Len(prng[1].items) : ~prng[1].items[k].isDict
    THEN Raise("AttributeError")
    ELSE Return([k \in 1..Len(prng[1].items) |->
                    Mention(prng[1].items[k].i, prng[1].items[k].o,
                            prng[1].items[k].l)])

\* One turn of the attachment loop of _from_reply.
ReplyItem(rtn, attachment) ==
    LET rtn1 == IF attachment.blob # <<>>
                THEN [rtn EXCEPT !.attachments =
                        Append(@, graphql_to_attachment(attachment.blob[1]))]
                ELSE rtn
        ext == IF attachment.ext # <<>>
               THEN graphql_to_extensible_attachment(attachment.ext[1])
               ELSE Return(NoAttachment)
    IN  IF ~Returned(ext) THEN ext
        ELSE LET rtn2 == IF attachment.ext = <<>> THEN rtn1
                         ELSE IF ext.val.kind = "UnsentMessage"
                         THEN [rtn1 EXCEPT !.unsent = TRUE]
                         ELSE [rtn1 EXCEPT !.attachments = Append(@, ext.val)]
             IN  Return(IF attachment.sticker # "None"
                        THEN [rtn2 EXCEPT !.sticker =
                                Sticker_from_graphql(attachment.sticker)]
                        ELSE rtn2)

RECURSIVE ReplyLoop(_, _)
ReplyLoop(attachments, rtn) ==
    IF attachments = <<>> THEN Return(rtn)
    ELSE LET r == ReplyItem(rtn, Head(attachments))
         IN  IF Returned(r) THEN ReplyLoop(Tail(attachments), r.val) ELSE r

_from_reply(d) ==
    LET tags == d.messageMetadata.tags
        mentions == MentionsOfPrng(d.prng)
        emoji_size == EmojiSize_from_tags(tags)
        location == get_folder_tag(tags)
    IN  IF ~Returned(mentions) THEN mentions
        ELSE IF ~Returned(emoji_size) THEN emoji_size
        ELSE IF ~Returned(location) THEN location
        ELSE ReplyLoop(
               IF d.attachments # <<>> THEN d.attachments[1] ELSE <<>>,
               [NewMessage(d.body, mentions.val, emoji_size.val, "None")
                EXCEPT !.forwarded = _get_forwarded_from_tags(tags),
                       !.uid = d.messageMetadata.messageId,
                       !.author = d.messageMetadata.actorFbId,
                       !.timestamp = d.messageMetadata.timestamp,
                       !.location = IF location.val # "None" THEN location.val ELSE @,
                       !.unsent = FALSE,
                       !.quick_replies = quick_replies_from_xmd(d.platform_xmd)])

\* One turn of the attachment loop of _from_pull, inside its try block.
PullItem(rtn, a) ==
    IF a.mercury = <<>> THEN Raise("KeyError")
    ELSE
    LET mercury == a.mercury[1]
    IN  IF mercury.blob # <<>>
        THEN IF mercury.blob[1].typename = "missing" THEN Raise("KeyError")
             ELSE IF mercury.blob[1].typename
                       \in {"MessageFile", "MessageVideo", "MessageAudio"}
             THEN IF a.fileSize = "absent" THEN Raise("KeyError")
                  ELSE Return([rtn EXCEPT !.attachments = Append(@,
                          [graphql_to_attachment(mercury.blob[1])
                           EXCEPT !.size = a.fileSize])])
             ELSE Return([rtn EXCEPT !.attachments =
                            Append(@, graphql_to_attachment(mercury.blob[1]))])
        ELSE IF mercury.sticker # "None"
        THEN Return([rtn EXCEPT !.sticker = Sticker_from_graphql(mercury.sticker)])
        ELSE IF mercury.ext # <<>>
        THEN LET ext == graphql_to_extensible_attachment(mercury.ext[1])
             IN  IF ~Returned(ext) THEN ext
                 ELSE Return(ApplyExtensible(rtn, ext.val))
        ELSE Return(rtn)

\* try: for a in data["attachments"]: ...  except Exception: print(...)
\* The first item that raises ends the loop; what was set before it stays.
RECURSIVE PullLoop(_, _)
PullLoop(attachments, rtn) ==
    IF attachments = <<>> THEN rtn
    ELSE LET r == PullItem(rtn, Head(attachments))
         IN  IF Returned(r) THEN PullLoop(Tail(attachments), r.val) ELSE rtn

_from_pull(d, mid, tags, author, timestamp) ==
    LET rtn0 == [NewMessage(d.body, <<>>, "None", "None")
                 EXCEPT !.uid = mid, !.author = author, !.timestamp = timestamp,
                        !.location = IF d.messageMetadata # <<>>
                                     THEN d.messageMetadata[1] ELSE @]
        mentions == MentionsOfPrng(d.prng)
        rtn1 == IF Returned(mentions)
                THEN [rtn0 EXCEPT !.mentions = mentions.val] ELSE rtn0
        rtn2 == IF d.attachments # <<>> /\ d.attachments[1] # <<>>
                THEN PullLoop(d.attachments[1], rtn1) ELSE rtn1
        emoji_size == EmojiSize_from_tags(tags)
    IN  IF ~Returned(emoji_size) THEN emoji_size
        ELSE Return([rtn2 EXCEPT !.emoji_size = emoji_size.val,
                                 !.forwarded = _get_forwarded_from_tags(tags)])

(***************************************************************************)
(* Inputs of the tag functions.                                            *)
(***************************************************************************)
MaxTags == 2

EmojiValues == {"large", "medium", "small", "l", "m", "s"}

Tags ==
    {<<"hot_emoji_size", ":", v>> : v \in EmojiValues \cup {"huge"}}
    \cup {<<"hot_emoji_size">>, <<"hot_emoji_size", ":">>,
          <<"hot_emoji_size", ":", "large", ":", "x">>,
          <<"x", "hot_emoji_size", ":", "large">>,
          <<"x", ":", "large">>, <<"x">>,
          <<"inbox">>, <<"archived">>, <<"pending">>, <<"other">>,
          <<"inbox", "x">>, <<"x", "other">>,
          <<"forward", "x">>, <<"x", "copy">>}

TagArgs == {NoneTags} \cup {TagList(s) : s \in SeqUpTo(Tags, MaxTags)}

(***************************************************************************)
(* Inputs of formatMentions.                                               *)
(***************************************************************************)
MaxSegs == 2
MaxArgs == 2

Seg(lit, field, spec, conv) ==
    [lit |-> lit, field |-> field, spec |-> spec, conv |-> conv]

Literals == {<<>>, <<"x", "y">>}

Segments ==
    {Seg(l, f, "", "None") : l \in Literals, f \in {"None", "", "0", "1", "p"}}
    \cup {Seg(l, "", "", "r") : l \in Literals}
    \cup {Seg(l, "0", "3", "None") : l \in Literals}

Letters == <<"A", "B", "C", "D">>
ThreadIds == <<"id1", "id2", "id3", "id4">>

\* The i-th positional argument: (threadId, displayText), the text i long.
PosArg(i) == [thread_id |-> ThreadIds[i], name |-> [j \in 1..i |-> Letters[i]]]

KwArg == [thread_id |-> "idp", name |-> <<"P", "e">>]

FormatArgs ==
    [text : SeqUpTo(Segments, MaxSegs),
     args : {[i \in 1..k |-> PosArg(i)] : k \in 0..MaxArgs},
     kwargs : {<<>>, "p" :> KwArg}]

(***************************************************************************)
(* Inputs of _to_send_data.                                                *)
(***************************************************************************)
MaxQuickReplies == 2
MaxMentions == 2

QuickReply(type, payload, is_response) ==
    [type |-> type, payload |-> payload, external_payload |-> "None",
     data |-> "None", is_response |-> is_response,
     title |-> IF type = "text" THEN "title" ELSE "absent",
     image_url |-> IF type = "location" THEN "absent" ELSE "None"]

QuickReplies ==
    {QuickReply(t, p, r) : t \in {"text", "location", "email", "phone"},
                           p \in {"None", "pay"}, r \in BOOLEAN}

MentionLists ==
    {[i \in 1..k |-> Mention(ThreadIds[i], 2 * (i - 1), 1)] : k \in 0..MaxMentions}

SendArgs ==
    {[NewMessage(t, m, e, st) EXCEPT !.reply_to_id = r] :
        t \in {"None", "", "hi"}, m \in MentionLists,
        e \in {"None", "LARGE", "SMALL"}, st \in {"None", "st1"},
        r \in {"None", "mid0"}}
    \cup {[NewMessage("hi", <<>>, "None", "None") EXCEPT !.quick_replies = q] :
            q \in SeqUpTo(QuickReplies, MaxQuickReplies)}

(***************************************************************************)
(* Inputs of the normalizers.                                              *)
(***************************************************************************)
MaxAttachments == 2
MaxDepth == 2

PayloadTags ==
    {NoneTags, TagList(<<>>), TagList(<<<<"inbox">>>>),
     TagList(<<<<"hot_emoji_size", ":", "large">>, <<"inbox">>, <<"forward", "x">>>>),
     TagList(<<<<"hot_emoji_size", ":", "huge">>>>),
     TagList(<<<<"other">>, <<"archived">>>>)}

ExtPayloads ==
    {ExtNoStory, ExtNoTarget}
    \cup {ExtTarget(t) : t \in {"MessageLocation", "MessageLiveLocation",
                                "ExternalUrl", "Story", "MessageOther", "missing"}}

Blob(typename) == [typename |-> typename]

Blobs == {Blob("MessageImage"), Blob("MessageFile")}

MentionRecord(i) == [entity_id |-> ThreadIds[i], offset |-> 2 * (i - 1), length |-> 1]

QuickReplyDicts == {QuickReplyDict(q) : q \in QuickReplies}

XmdValues ==
    {<<>>, <<JsonNull>>}
    \cup {<<JsonDict(q)>> : q \in QuickReplyDicts}
    \cup {<<JsonList(qs)>> : qs \in SeqUpTo(QuickReplyDicts, MaxQuickReplies)}

MessageIds == <<"mid1", "mid2", "mid3", "mid4", "mid5">>

\* The bulk-query payload of the message at nesting level n with the
\* identity fields and an empty reaction list only.
GraphqlBase(n) ==
    [message_id |-> MessageIds[n], message_sender |-> "u1", message |-> <<>>,
     tags_list |-> NoneTags, sticker |-> "None", timestamp_precise |-> "None",
     unread |-> "None", message_reactions |-> <<<<>>>>,
     blob_attachments |-> <<>>, platform_xmd_encoded |-> <<>>,
     extensible_attachment |-> <<>>, replied_to_message |-> <<>>]

GraphqlSections ==
    {[GraphqlBase(1) EXCEPT !.message_sender = s, !.message = m,
                            !.tags_list = t, !.timestamp_precise = ts,
                            !.message_reactions = r, !.unread = u,
                            !.sticker = st] :
        s \in {"None", "u1"},
        m \in {<<>>, <<EmptyMessageDict>>,
               <<[text |-> "hi", ranges |-> <<MentionRecord(1)>>]>>},
        t \in PayloadTags, ts \in {"None", "1700000000000"},
        r \in {<<>>, <<<<>>>>, <<<<[user |-> "u2", reaction |-> "LOVE"]>>>>},
        u \in {"None", "True"}, st \in {"None", "st1"}}

GraphqlAttachments ==
    {[GraphqlBase(1) EXCEPT !.blob_attachments = b, !.extensible_attachment = e] :
        b \in {<<>>} \cup {<<l>> : l \in SeqUpTo(Blobs, MaxAttachments)},
        e \in {<<>>} \cup {<<x>> : x \in ExtPayloads}}

GraphqlQuickReplies ==
    {[GraphqlBase(1) EXCEPT !.platform_xmd_encoded = x] : x \in XmdValues}

\* Reply chains of at most d nested replied-to messages below level n; a
\* level may lack its reaction list, and a chain may end in a replied-to
\* entry whose message is null.
RECURSIVE GraphqlChains(_, _)
GraphqlChains(n, d) ==
    LET leaves == {GraphqlBase(n), [GraphqlBase(n) EXCEPT !.message_reactions = <<>>]}
    IN  {[l EXCEPT !.replied_to_message = r] :
            l \in leaves, r \in {<<>>, <<[message |-> <<>>]>>}}
        \cup (IF d = 0 THEN {}
              ELSE {[l EXCEPT !.replied_to_message = <<[message |-> <<c>>]>>] :
                        l \in leaves, c \in GraphqlChains(n + 1, d - 1)})

GraphqlArgs ==
    GraphqlSections \cup GraphqlAttachments \cup GraphqlQuickReplies
    \cup GraphqlChains(1, MaxDepth)

Mercury(blob, sticker, ext) == [blob |-> blob, sticker |-> sticker, ext |-> ext]

Mercuries ==
    {Mercury(<<b>>, "None", <<>>) : b \in Blobs}
    \cup {Mercury(<<>>, "None", <<e>>) : e \in ExtPayloads}
    \cup {Mercury(<<>>, "st1", <<>>), Mercury(<<>>, "None", <<>>),
          Mercury(<<Blob("MessageImage")>>, "None", <<ExtNoTarget>>)}

AttachmentLists == {<<>>} \cup {<<l>> : l \in SeqUpTo(Mercuries, MaxAttachments)}

PrngItem(i) == [isDict |-> TRUE, i |-> ThreadIds[i], o |-> 2 * (i - 1), l |-> 1]
NotADict == [isDict |-> FALSE, i |-> "None", o |-> 0, l |-> 0]

Prngs ==
    {<<>>, <<[valid |-> FALSE, items |-> <<>>]>>}
    \cup {<<[valid |-> TRUE, items |-> m]>> :
            m \in {<<>>, <<PrngItem(1)>>, <<PrngItem(1), PrngItem(2)>>,
                   <<PrngItem(1), NotADict>>, <<NotADict, PrngItem(2)>>}}

ReplyBase ==
    [body |-> "None", prng |-> <<>>, platform_xmd |-> <<>>,
     messageMetadata |-> [tags |-> TagList(<<>>), messageId |-> "mid1",
                          actorFbId |-> "u1", timestamp |-> "None"],
     attachments |-> <<>>]

ReplyArgs ==
    {[ReplyBase EXCEPT !.body = b, !.prng = p, !.messageMetadata.tags = t,
                       !.messageMetadata.timestamp = ts] :
        b \in {"None", "hi"}, p \in Prngs, t \in PayloadTags,
        ts \in {"None", "1700000000000"}}
    \cup {[ReplyBase EXCEPT !.attachments = a] : a \in AttachmentLists}
    \cup {[ReplyBase EXCEPT !.platform_xmd = x] : x \in XmdValues}

\* An element of the offline-pull attachment list: the mercury payload
\* (<<>> when the "mercury" key is missing) and the fileSize field.
PullItems ==
    {[mercury |-> <<m>>, fileSize |-> "10"] : m \in Mercuries}
    \cup {[mercury |-> <<>>, fileSize |-> "absent"],
          [mercury |-> <<Mercury(<<Blob("MessageFile")>>, "None", <<>>)>>,
           fileSize |-> "absent"],
          [mercury |-> <<Mercury(<<Blob("missing")>>, "None", <<>>)>>,
           fileSize |-> "10"]}

PullData(body, messageMetadata, prng, attachments) ==
    [body |-> body, messageMetadata |-> messageMetadata, prng |-> prng,
     attachments |-> attachments]

PullCall(d, tags, timestamp) ==
    [data |-> d, mid |-> "mid1", tags |-> tags, author |-> "u1",
     timestamp |-> timestamp]

PullArgs ==
    {PullCall(PullData(b, mm, p, <<>>), t, ts) :
        b \in {"None", "hi"}, mm \in {<<>>, <<"INBOX">>}, p \in Prngs,
        t \in PayloadTags, ts \in {"None", "1700000000000"}}
    \cup {PullCall(PullData("hi", <<>>, <<[valid |-> TRUE, items |-> <<PrngItem(1)>>]>>, a),
                   NoneTags, "1700000000000") :
            a \in {<<>>} \cup {<<l>> : l \in SeqUpTo(PullItems, MaxAttachments)}}

Init ==
    /\ \/ op = "EmojiSize._from_tags" /\ arg \in TagArgs
       \/ op = "get_folder_tag" /\ arg \in TagArgs
       \/ op = "formatMentions" /\ arg \in FormatArgs
       \/ op = "_to_send_data" /\ arg \in SendArgs
       \/ op = "_from_graphql" /\ arg \in GraphqlArgs
       \/ op = "_from_reply" /\ arg \in ReplyArgs
       \/ op = "_from_pull" /\ arg \in PullArgs
    /\ ret = Pending
    /\ data = arg

Call_EmojiSize_from_tags ==
    /\ op = "EmojiSize._from_tags" /\ ret = Pending
    /\ ret' = EmojiSize_from_tags(arg)
    /\ UNCHANGED <<op, arg, data>>

Call_get_folder_tag ==
    /\ op = "get_folder_tag" /\ ret = Pending
    /\ ret' = get_folder_tag(arg)
    /\ UNCHANGED <<op, arg, data>>

Call_formatMentions ==
    /\ op = "formatMentions" /\ ret = Pending
    /\ ret' = formatMentions(arg.text, arg.args, arg.kwargs)
    /\ UNCHANGED <<op, arg, data>>

Call_to_send_data ==
    /\ op = "_to_send_data" /\ ret = Pending
    /\ ret' = Return(_to_send_data(arg))
    /\ UNCHANGED <<op, arg, data>>

Call_from_graphql ==
    /\ op = "_from_graphql" /\ ret = Pending
    /\ LET r == _from_graphql(<<arg>>)
       IN  /\ ret' = (IF Returned(r.ret) THEN Return(r.ret.val[1]) ELSE r.ret)
           /\ data' = r.data[1]
    /\ UNCHANGED <<op, arg>>

Call_from_reply ==
    /\ op = "_from_reply" /\ ret = Pending
    /\ ret' = _from_reply(arg)
    /\ UNCHANGED <<op, arg, data>>

Call_from_pull ==
    /\ op = "_from_pull" /\ ret = Pending
    /\ ret' = _from_pull(arg.data, arg.mid, arg.tags, arg.author, arg.timestamp)
    /\ UNCHANGED <<op, arg, data>>

Next ==
    \/ Call_from_graphql
    \/ Call_from_reply
    \/ Call_from_pull
    \/ Call_to_send_data
    \/ Call_EmojiSize_from_tags
    \/ Call_get_folder_tag
    \/ Call_formatMentions

Spec == Init /\ [][Next]_vars

(***************************************************************************)
(* C4.                                                                     *)
(***************************************************************************)
HasEmojiPrefix(tag) ==
    Len(tag) >= 2 /\ tag[1] = "hot_emoji_size" /\ tag[2] = ":"

EmojiValueOf(tag) == SubSeq(tag, 3, Len(tag))

SizeOf(v) ==
    CASE v \in {"large", "l"} -> "LARGE"
      [] v \in {"medium", "m"} -> "MEDIUM"
      [] v \in {"small", "s"} -> "SMALL"

\* C4: EmojiSize._from_tags returns none when the tag list is absent,
\* empty or has no tag with the hot_emoji_size prefix; otherwise the first
\* tag (in input order) with that prefix decides: a recognised value gives
\* its size enum, and an unrecognised value makes the call fail with a
\* lookup error (KeyError) instead of returning none or a default.
C4_EmojiSizeFirstMatch ==
    op = "EmojiSize._from_tags" /\ ret # Pending =>
        LET list == TagsOrEmpty(arg)
            P == {i \in 1..Len(list) : HasEmojiPrefix(list[i])}
        IN  IF P = {} THEN ret = Return("None")
            ELSE LET f == CHOOSE i \in P : \A j \in P : i <= j
                     v == EmojiValueOf(list[f])
                 IN  IF Len(v) = 1 /\ v[1] \in EmojiValues
                     THEN ret = Return(SizeOf(v[1]))
                     ELSE ret = Raise("KeyError")

\* A tag with an unrecognised value is reached before a later well-formed
\* one, and the call raises.
C4_Witness ==
    /\ op = "EmojiSize._from_tags"
    /\ arg = TagList(<<<<"hot_emoji_size", ":", "huge">>,
                       <<"hot_emoji_size", ":", "large">>>>)
    /\ ret = Raise("KeyError")

(***************************************************************************)
(* C5.                                                                     *)
(***************************************************************************)
FolderPresent(list, c) == \E i \in 1..Len(list) : list[i] = <<c>>

\* C5: get_folder_tag returns the first candidate of (inbox, archived,
\* pending, other) that is verbatim an element of the tag list, whatever
\* the order of the tags, and returns none when no candidate is an element
\* of the tag list, an empty or absent tag list included.
C5_FolderFirstCandidate ==
    op = "get_folder_tag" /\ ret # Pending =>
        LET list == TagsOrEmpty(arg)
            P == {k \in 1..4 : FolderPresent(list, possible_values[k])}
        IN  IF P = {} THEN ret = Return("None")
            ELSE LET f == CHOOSE k \in P : \A j \in P : k <= j
                 IN  ret = Return(Upper(possible_values[f]))

(***************************************************************************)
(* C2, C3.                                                                 *)
(***************************************************************************)
\* The indices of the template's placeholders, in template order.
Placeholders(segs) == {k \in 1..Len(segs) : segs[k].field # "None"}

\* The argument a placeholder names: {} takes the positional argument
\* numbered by the count of {} before it.
ArgOf(segs, k, args, kwargs) ==
    LET f == segs[k].field
        n == Cardinality({j \in 1..(k - 1) : segs[j].field = ""})
    IN  IF f = "" THEN args[n + 1]
        ELSE IF IsDigit(f) THEN args[ToInt(f) + 1]
        ELSE kwargs[f]

Resolves(segs, k, args, kwargs) ==
    LET f == segs[k].field
        n == Cardinality({j \in 1..(k - 1) : segs[j].field = ""})
    IN  IF f = "" THEN n < Len(args)
        ELSE IF IsDigit(f) THEN ToInt(f) < Len(args)
        ELSE f \in DOMAIN kwargs

\* The text substituted for placeholder k: the argument's display text
\* under the placeholder's format spec and conversion.
Substituted(segs, k, args, kwargs) ==
    LET t == ArgOf(segs, k, args, kwargs).name
        padded == IF segs[k].spec = "3" /\ Len(t) < 3
                  THEN t \o [j \in 1..(3 - Len(t)) |-> " "] ELSE t
    IN  IF segs[k].conv = "r" THEN <<"'">> \o padded \o <<"'">> ELSE padded

Piece(segs, k, args, kwargs) ==
    segs[k].lit \o (IF segs[k].field = "None" THEN <<>>
                    ELSE Substituted(segs, k, args, kwargs))

\* The k-th smallest element of a set of numbers.
Nth(S, k) == CHOOSE x \in S : Cardinality({y \in S : y <= x}) = k

\* C2: when formatMentions returns, the text is the template with every
\* placeholder replaced by the display text of its argument (as the
\* placeholder formats it), there is exactly one Mention per placeholder, in
\* placeholder order, with the argument's threadId, offset = where the
\* substituted text starts in the output and length = its length; so
\* text[offset .. offset+length) is the substituted text, and the spans are
\* ascending and do not overlap.
C2_MentionsAligned ==
    op = "formatMentions" /\ Returned(ret) =>
        LET segs == arg.text
            P == Placeholders(segs)
            m == ret.val.mentions
            text == ret.val.text
        IN  /\ text = Concat([k \in 1..Len(segs) |->
                                Piece(segs, k, arg.args, arg.kwargs)])
            /\ Len(m) = Cardinality(P)
            /\ \A i \in 1..Len(m) :
                 LET k == Nth(P, i)
                     sub == Substituted(segs, k, arg.args, arg.kwargs)
                 IN  /\ m[i].thread_id = ArgOf(segs, k, arg.args, arg.kwargs).thread_id
                     /\ m[i].length = Len(sub)
                     /\ m[i].offset =
                          Len(Concat([j \in 1..(k - 1) |->
                                        Piece(segs, j, arg.args, arg.kwargs)]))
                          + Len(segs[k].lit)
                     /\ SubSeq(text, m[i].offset + 1, m[i].offset + m[i].length) = sub
            /\ \A i \in 1..(Len(m) - 1) : m[i].offset + m[i].length <= m[i + 1].offset

\* "xy{}xy{}" with two arguments: two mentions, the second after the first.
C2_Witness ==
    /\ op = "formatMentions" /\ Returned(ret)
    /\ arg.text = <<Seg(<<"x", "y">>, "", "", "None"), Seg(<<"x", "y">>, "", "", "None")>>
    /\ ret.val.text = <<"x", "y", "A", "x", "y", "B", "B">>
    /\ ret.val.mentions = <<Mention("id1", 2, 1), Mention("id2", 5, 2)>>

Mixes(segs) ==
    /\ \E k \in 1..Len(segs) : segs[k].field = ""
    /\ \E k \in 1..Len(segs) : IsDigit(segs[k].field)

FirstExplicit(segs) ==
    CHOOSE k \in 1..Len(segs) :
        IsDigit(segs[k].field) /\ \A j \in 1..(k - 1) : ~IsDigit(segs[j].field)

\* C3 as claimed: a template with both {} and {n} always fails with
\* ValueError.
C3_MixAlwaysValueError ==
    op = "formatMentions" /\ ret # Pending /\ Mixes(arg.text) =>
        ret = Raise("ValueError")

\* C3 amended: a template with both {} and {n}, in either order, returns no
\* Message; the error is the usage error (ValueError) when every placeholder
\* before the first {n} names a supplied argument, and the lookup error of
\* the first placeholder that does not otherwise.  A template that does not
\* mix the two never raises the usage error.
C3_MixFails ==
    op = "formatMentions" /\ ret # Pending =>
        LET segs == arg.text
        IN  IF Mixes(segs)
            THEN /\ ~Returned(ret)
                 /\ (\A j \in 1..(FirstExplicit(segs) - 1) :
                        segs[j].field # "None" => Resolves(segs, j, arg.args, arg.kwargs))
                    <=> ret = Raise("ValueError")
            ELSE ret # Raise("ValueError")

\* "{1}xy{}": the explicit index comes first and the call raises ValueError.
C3_Witness ==
    /\ op = "formatMentions"
    /\ arg.text = <<Seg(<<>>, "1", "", "None"), Seg(<<"x", "y">>, "", "", "None")>>
    /\ Len(arg.args) = 2
    /\ ret = Raise("ValueError")

(***************************************************************************)
(* C7.                                                                     *)
(***************************************************************************)
SingleResponse(L) == Len(L) = 1 /\ L[1].is_response

\* C7 as claimed: the emitted platform_xmd is a single object iff the list
\* is one response, and reconstructing it yields the original list, every
\* is_response flag included.
C7_RoundTripExact ==
    op = "_to_send_data" /\ Returned(ret) =>
        LET L == arg.quick_replies
            x == ret.val.platform_xmd
        IN  /\ (x # <<>> /\ x[1].kind = "dict") <=> SingleResponse(L)
            /\ quick_replies_from_xmd(x) = L

\* C7 amended: an empty list emits no platform_xmd; a non-empty list emits a
\* single object iff it is one response and a list of the same length
\* otherwise; reconstructing the emitted value yields a list of the same
\* length whose elements equal the originals in every field but
\* is_response, which comes back true only for the single response.  So the
\* round trip returns the original list iff it is a single response or
\* holds no response.
C7_RoundTrip ==
    op = "_to_send_data" /\ Returned(ret) =>
        LET L == arg.quick_replies
            x == ret.val.platform_xmd
            R == quick_replies_from_xmd(x)
        IN  /\ x = <<>> <=> L = <<>>
            /\ x # <<>> =>
                 /\ x[1].kind = "dict" <=> SingleResponse(L)
                 /\ x[1].kind = "list" <=> ~SingleResponse(L)
                 /\ x[1].kind = "list" => Len(x[1].items) = Len(L)
            /\ Len(R) = Len(L)
            /\ \A i \in 1..Len(L) :
                 R[i] = [L[i] EXCEPT !.is_response = SingleResponse(L)]
            /\ R = L <=>
                 (SingleResponse(L) \/ \A i \in 1..Len(L) : ~L[i].is_response)

\* One text reply that is not a response is sent as a one-element list and
\* comes back unchanged.
C7_Witness ==
    /\ op = "_to_send_data" /\ Returned(ret)
    /\ arg.quick_replies = <<QuickReply("text", "pay", FALSE)>>
    /\ ret.val.platform_xmd[1].kind = "list"
    /\ quick_replies_from_xmd(ret.val.platform_xmd) = arg.quick_replies

(***************************************************************************)
(* C9.                                                                     *)
(***************************************************************************)
\* The payload nests a replied-to message at this level.
Nests(payload) ==
    payload.replied_to_message # <<>>
    /\ payload.replied_to_message[1].message # <<>>

RECURSIVE PayloadDepth(_)
PayloadDepth(payload) ==
    IF Nests(payload)
    THEN 1 + PayloadDepth(payload.replied_to_message[1].message[1])
    ELSE 0

RECURSIVE ChainDepth(_)
ChainDepth(m) == IF m.replied_to = <<>> THEN 0 ELSE 1 + ChainDepth(m.replied_to[1])

RECURSIVE ChainMatches(_, _)
ChainMatches(m, payload) ==
    /\ m.uid = payload.message_id
    /\ m.replied_to # <<>> <=> Nests(payload)
    /\ IF m.replied_to # <<>>
       THEN /\ m.reply_to_id = m.replied_to[1].uid
            /\ Nests(payload) =>
                 ChainMatches(m.replied_to[1],
                              payload.replied_to_message[1].message[1])
       ELSE m.reply_to_id = "None"

\* C9: in the Message _from_graphql returns, at every level replied_to is
\* non-null iff the payload nested a replied-to message at that level, the
\* depth of the replied_to chain equals the nesting depth of the payload,
\* and whenever replied_to is non-null reply_to_id equals replied_to.uid.
C9_ReplyChain ==
    op = "_from_graphql" /\ Returned(ret) =>
        /\ ChainMatches(ret.val, arg)
        /\ ChainDepth(ret.val) = PayloadDepth(arg)

\* A payload nested two deep is normalized into a chain two deep.
C9_Witness ==
    /\ op = "_from_graphql" /\ Returned(ret)
    /\ PayloadDepth(arg) = 2
    /\ ret.val.reply_to_id = "mid2"
    /\ ret.val.replied_to[1].reply_to_id = "mid3"
    /\ ret.val.replied_to[1].replied_to[1].replied_to = <<>>

(***************************************************************************)
(* What a payload carries, read off the payload alone.                     *)
(***************************************************************************)
Normalizers == {"_from_graphql", "_from_reply", "_from_pull"}

Targetless(e) == e.story /\ ~e.target

KnownSubtypes == {"MessageLocation", "MessageLiveLocation", "ExternalUrl", "Story"}

UnknownSubtype(e) ==
    e.story /\ e.target /\ e.typename \notin KnownSubtypes \cup {"missing"}

\* The attachment an extensible payload stands for, if any.
ExtCarried(e) ==
    IF e.story /\ e.target /\ e.typename \in KnownSubtypes
    THEN <<[kind |-> CASE e.typename = "MessageLocation" -> "LocationAttachment"
                       [] e.typename = "MessageLiveLocation" -> "LiveLocationAttachment"
                       [] OTHER -> "ShareAttachment"]>>
    ELSE <<>>

\* The attachments one mercury payload stands for; size is the byte size
\* stamped on file, video and audio blobs by the offline-pull source.
MercuryCarried(m, size) ==
    (IF m.blob = <<>> THEN <<>>
     ELSE <<[kind |-> m.blob[1].typename,
             size |-> IF m.blob[1].typename = "MessageFile" THEN size ELSE "None"]>>)
    \o (IF m.ext = <<>> THEN <<>> ELSE ExtCarried(m.ext[1]))

\* An offline-pull attachment item that cannot be classified.
MalformedItem(a) ==
    \/ a.mercury = <<>>
    \/ /\ a.mercury[1].blob # <<>>
       /\ \/ a.mercury[1].blob[1].typename = "missing"
          \/ a.mercury[1].blob[1].typename = "MessageFile" /\ a.fileSize = "absent"
    \/ /\ a.mercury[1].ext # <<>>
       /\ a.mercury[1].ext[1].typename = "missing"

\* The extensible payloads of the call's payload.
ExtsOf(o, a) ==
    IF o = "_from_graphql"
    THEN {a.extensible_attachment[k] : k \in 1..Len(a.extensible_attachment)}
    ELSE IF o = "_from_reply"
    THEN IF a.attachments = <<>> THEN {}
         ELSE UNION {{x.ext[k] : k \in 1..Len(x.ext)} :
                        x \in {a.attachments[1][j] : j \in 1..Len(a.attachments[1])}}
    ELSE IF a.data.attachments = <<>> THEN {}
         ELSE UNION {{x.mercury[1].ext[k] : k \in 1..Len(x.mercury[1].ext)} :
                        x \in {y \in {a.data.attachments[1][j] :
                                        j \in 1..Len(a.data.attachments[1])} :
                                 y.mercury # <<>>}}

HasTargetless(o, a) == \E e \in ExtsOf(o, a) : Targetless(e)

HasUnknownSubtype(o, a) == \E e \in ExtsOf(o, a) : UnknownSubtype(e)

\* The attachments the payload stands for, in payload order, a malformed
\* item of the offline-pull list standing for none.
Carried(o, a) ==
    IF o = "_from_graphql"
    THEN (IF a.blob_attachments = <<>> THEN <<>>
          ELSE [k \in 1..Len(a.blob_attachments[1]) |->
                  [kind |-> a.blob_attachments[1][k].typename, size |-> "None"]])
         \o (IF a.extensible_attachment = <<>> THEN <<>>
             ELSE ExtCarried(a.extensible_attachment[1]))
    ELSE IF o = "_from_reply"
    THEN IF a.attachments = <<>> THEN <<>>
         ELSE Concat([k \in 1..Len(a.attachments[1]) |->
                        MercuryCarried(a.attachments[1][k], "None")])
    ELSE IF a.data.attachments = <<>> THEN <<>>
         ELSE Concat([k \in 1..Len(a.data.attachments[1]) |->
                        IF MalformedItem(a.data.attachments[1][k]) THEN <<>>
                        ELSE MercuryCarried(a.data.attachments[1][k].mercury[1],
                                            a.data.attachments[1][k].fileSize)])

IsAttachment(x) == x.kind # "None"

(***************************************************************************)
(* C1.                                                                     *)
(***************************************************************************)
\* A payload with the identity fields and no optional section.
Minimal(o, a) ==
    IF o = "_from_graphql"
    THEN /\ a.message_sender # "None" /\ a.message = <<>>
         /\ a.tags_list = NoneTags /\ a.sticker = "None"
         /\ a.timestamp_precise = "None" /\ a.unread = "None"
         /\ a.message_reactions = <<>> /\ a.blob_attachments = <<>>
         /\ a.platform_xmd_encoded = <<>> /\ a.extensible_attachment = <<>>
         /\ a.replied_to_message = <<>>
    ELSE IF o = "_from_reply"
    THEN /\ a.prng = <<>> /\ a.platform_xmd = <<>> /\ a.attachments = <<>>
         /\ a.messageMetadata.tags = NoneTags
         /\ a.messageMetadata.timestamp = "None"
    ELSE /\ a.data.prng = <<>> /\ a.data.attachments = <<>>
         /\ a.data.messageMetadata = <<>>
         /\ a.tags = NoneTags /\ a.timestamp = "None"

DefaultsOnly(m) ==
    /\ m.mentions = <<>> /\ m.attachments = <<>> /\ m.quick_replies = <<>>
    /\ ~m.unsent /\ ~m.forwarded
    /\ m.timestamp = "None" /\ m.location = "None"
    /\ m.sticker = "None" /\ m.emoji_size = "None"

\* C1: for each of the three entry points, normalizing a payload that has
\* only the identity fields and none of the optional sections completes
\* without raising and returns a Message with empty mentions, attachments
\* and quick replies, unsent and forwarded false, and timestamp, location,
\* sticker and emoji_size absent.
C1_MinimalPayloadDefaults ==
    op \in Normalizers /\ ret # Pending /\ Minimal(op, arg) =>
        Returned(ret) /\ DefaultsOnly(ret.val)

(***************************************************************************)
(* C6.                                                                     *)
(***************************************************************************)
\* C6: in all three entry points the result has unsent = true iff the
\* payload holds an extensible attachment whose target is absent, that
\* marker is not in the attachments list, and the other attachments of the
\* message are present.
C6_UnsentMarker ==
    op \in Normalizers /\ Returned(ret) =>
        /\ ret.val.unsent <=> HasTargetless(op, arg)
        /\ \A i \in 1..Len(ret.val.attachments) :
             ret.val.attachments[i].kind # "UnsentMessage"
        /\ SelectSeq(ret.val.attachments, IsAttachment) = Carried(op, arg)

(***************************************************************************)
(* C8.                                                                     *)
(***************************************************************************)
\* The mention records of a prng text that are dicts, in order.
WellFormedMentions(prng) ==
    IF prng = <<>> \/ ~prng[1].valid THEN <<>>
    ELSE LET IsRecord(x) == x.isDict
             recs == SelectSeq(prng[1].items, IsRecord)
         IN  [k \in 1..Len(recs) |-> Mention(recs[k].i, recs[k].o, recs[k].l)]

\* C8: in _from_pull no failure of classifying an attachment or reading a
\* mention reaches the caller; the attachments before and after a malformed
\* one are all classified and present; id, author, timestamp and text are as
\* given; and a malformed mention record is skipped while the others are
\* kept.
C8_PullIsolation ==
    op = "_from_pull" /\ ret # Pending =>
        /\ Returned(ret) \/ ~Returned(EmojiSize_from_tags(arg.tags))
        /\ Returned(ret) =>
             /\ ret.val.attachments = Carried(op, arg)
             /\ ret.val.mentions = WellFormedMentions(arg.data.prng)
             /\ ret.val.uid = arg.mid /\ ret.val.author = arg.author
             /\ ret.val.timestamp = arg.timestamp /\ ret.val.text = arg.data.body

(***************************************************************************)
(* C10.                                                                    *)
(***************************************************************************)
\* C10: in all three entry points an extensible attachment whose target has
\* an unrecognised subtype adds no element to the attachments list, no None
\* placeholder either: the list holds the classified attachments and
\* nothing else, and unsent is not set by it.
C10_UnknownSubtypeDropped ==
    op \in Normalizers /\ Returned(ret) /\ HasUnknownSubtype(op, arg) =>
        /\ \A i \in 1..Len(ret.val.attachments) : IsAttachment(ret.val.attachments[i])
        /\ Len(ret.val.attachments) = Len(Carried(op, arg))
        /\ ret.val.unsent => HasTargetless(op, arg)

(***************************************************************************)
(* C11.                                                                    *)
(***************************************************************************)
\* The emoji size of the message is set.
EmojiSet(self) == self.emoji_size # "None"

\* The field map carries the tag encoding of the emoji size of self.
TagEncoded(self, fields) ==
    /\ EmojiSet(self)
    /\ fields.tags0 = <<<<"hot_emoji_size", ":", EmojiName(self.emoji_size)>>>>

\* The field map carries the emoji size of self in sticker_id.
StickerIdEncoded(self, fields) ==
    EmojiSet(self) /\ fields.sticker_id = EmojiValue(self.emoji_size)

\* C11 as stated, "text is present" read as "text is not absent" (the empty
\* text is one of the cases the claim lists next to the absent one): tags[0]
\* is present iff emoji size is set and text is present; the emoji size is
\* in sticker_id iff emoji size is set, text is absent and no sticker is
\* set; the two encodings never both appear; a sticker always sets
\* sticker_id to its own id.
C11_EncodingByPresence ==
    op = "_to_send_data" /\ Returned(ret) =>
        LET f == ret.val
        IN  /\ f.tags0 # <<>> <=> (EmojiSet(arg) /\ arg.text # "None")
            /\ StickerIdEncoded(arg, f) <=>
                 (EmojiSet(arg) /\ arg.text = "None" /\ arg.sticker = "None")
            /\ ~(f.tags0 # <<>> /\ StickerIdEncoded(arg, f))
            /\ arg.sticker # "None" => f.sticker_id = arg.sticker

\* C11 amended: tags[0] is present iff emoji size is set and text is
\* non-empty, and then it is "hot_emoji_size:" followed by the lower-case
\* size name; the emoji size is in sticker_id iff emoji size is set, text is
\* absent or empty, and no sticker is set; the two encodings never both
\* appear; a sticker always sets sticker_id to its own id; with neither
\* sticker nor a sticker_id encoding the field is not emitted.
C11_EncodingByTruthiness ==
    op = "_to_send_data" /\ Returned(ret) =>
        LET f == ret.val
        IN  /\ f.tags0 # <<>> <=> (EmojiSet(arg) /\ Truthy(arg.text))
            /\ f.tags0 # <<>> => TagEncoded(arg, f)
            /\ StickerIdEncoded(arg, f) <=>
                 (EmojiSet(arg) /\ ~Truthy(arg.text) /\ arg.sticker = "None")
            /\ ~(f.tags0 # <<>> /\ StickerIdEncoded(arg, f))
            /\ arg.sticker # "None" => f.sticker_id = arg.sticker
            /\ (arg.sticker = "None" /\ ~StickerIdEncoded(arg, f)) =>
                 f.sticker_id = "absent"

\* An empty text with an emoji size and no sticker: the size went to
\* sticker_id and no tag field was emitted.
C11_Witness ==
    /\ op = "_to_send_data" /\ Returned(ret)
    /\ arg.text = "" /\ EmojiSet(arg) /\ arg.sticker = "None"
    /\ StickerIdEncoded(arg, ret.val) /\ ret.val.tags0 = <<>>

(***************************************************************************)
(* C12.                                                                    *)
(***************************************************************************)
\* What entry point o returns for payload d.
Normalize(o, d) ==
    CASE o = "_from_graphql" ->
            LET r == _from_graphql(<<d>>)
            IN  IF Returned(r.ret) THEN Return(r.ret.val[1]) ELSE r.ret
      [] o = "_from_reply" -> _from_reply(d)
      [] o = "_from_pull" -> _from_pull(d.data, d.mid, d.tags, d.author, d.timestamp)

\* C12: each of the three entry points leaves the payload it was given
\* unchanged at every nesting level, the payload observed after the call
\* equals the payload before it, and normalizing the payload again yields
\* an equal outcome.
C12_PayloadUnchanged ==
    op \in Normalizers /\ ret # Pending =>
        /\ data = arg
        /\ Normalize(op, data) = ret

\* What does hold: the outcome of normalizing the payload as the call left
\* it equals the outcome of the call, and _from_reply and _from_pull leave
\* their payload as it was.
C12_SameOutcomeAgain ==
    op \in Normalizers /\ ret # Pending =>
        /\ Normalize(op, data) = ret
        /\ op # "_from_graphql" => data = arg

\* A bulk-query payload without "message" was normalized to a Message and
\* now holds an empty "message" dict.
C12_MessageKeyAdded ==
    /\ op = "_from_graphql" /\ Returned(ret)
    /\ arg.message = <<>> /\ data.message = <<EmptyMessageDict>>

\* The nested payload of a replied-to message lacked "message" and now holds
\* an empty "message" dict.
C12_NestedKeyAdded ==
    /\ op = "_from_graphql" /\ Returned(ret)
    /\ arg.replied_to_message # <<>>
    /\ arg.replied_to_message[1].message # <<>>
    /\ arg.replied_to_message[1].message[1].message = <<>>
    /\ data.replied_to_message[1].message[1].message = <<EmptyMessageDict>>

====
